---- MODULE Spec2Model ----
(***************************************************************************)
(* Model of walk.js: an asynchronous directory walker with recursion       *)
(* control.  The exported function validates its arguments and starts the  *)
(* internal recursive walk on the seed path; every fs.stat and fs.readdir  *)
(* request is an asynchronous boundary whose callback is delivered later,  *)
(* in any order, with success or with an error.                            *)
(***************************************************************************)
EXTENDS Integers, Sequences, FiniteSets, TLC

\* Largest number of filesystem entries (the seed included) in a tree.
MaxNodes == 4

AllNodes == 1..MaxNodes

\* The seed path names entry 1.
Root == 1

VARIABLES
    nodeCount,      \* filesystem: number of entries that exist
    parent,         \* filesystem: the directory that holds each entry
    kind,           \* filesystem: "dir", "file" or "absent" per entry
    path,           \* argument of the exported function
    worker,         \* argument of the exported function
    callback,       \* argument of the exported function
    phase,          \* "idle" before the call, then "returned" or "threw"
    thrown,         \* the error raised synchronously out of the call
    uncaught,       \* the error raised out of a filesystem callback
    statOut,        \* entries with an fs.stat request in flight
    readdirOut,     \* entries with an fs.readdir request in flight
    statIssued,     \* fs.stat requests issued per entry
    readdirIssued,  \* fs.readdir requests issued per entry
    pending,        \* the pending counter of each directory frame
    done,           \* arguments each frame's callback was invoked with
    closer,         \* the child whose completion fired a frame's callback
    completion,     \* arguments the top-level callback was invoked with
    workerLog,      \* values the worker returned, per entry it was given
    ioErrors        \* the fs.stat / fs.readdir errors delivered so far

vars == <<nodeCount, parent, kind, path, worker, callback, phase, thrown,
          uncaught, statOut, readdirOut, statIssued, readdirIssued, pending,
          done, closer, completion, workerLog, ioErrors>>

----------------------------------------------------------------------------
\* JavaScript values and errors

\* The argument values tried for path: a string, and the non-strings of the
\* test suite.
PathValues ==
    {"'foo'", "undefined", "null", "true", "42", "NaN", "{}", "[]", "/o/"}

\* Worker functions: always truthy, always falsy, or any result per call.
WorkerFunctions == {"truthy", "falsy", "any"}

WorkerValues == WorkerFunctions \cup {"undefined", "'not-a-function'"}

CallbackValues == {"function", "undefined", "'not-a-function'"}

\* JavaScript's typeof on the values above.
TypeOf(v) ==
    CASE v \in WorkerFunctions \cup {"function"} -> "function"
      [] v \in {"'foo'", "'not-a-function'"} -> "string"
      [] v = "undefined" -> "undefined"
      [] v = "true" -> "boolean"
      [] v \in {"42", "NaN"} -> "number"
      [] OTHER -> "object"

NoError == [type |-> "undefined", op |-> "", node |-> 0]

PathTypeError == [type |-> "TypeError", op |-> "path", node |-> 0]

WorkerTypeError == [type |-> "TypeError", op |-> "worker", node |-> 0]

StatError(n) == [type |-> "Error", op |-> "stat", node |-> n]

ReaddirError(n) == [type |-> "Error", op |-> "readdir", node |-> n]

\* JavaScript truthiness of an error argument.
Truthy(error) == error # NoError

----------------------------------------------------------------------------
\* The filesystem

\* Entries a directory listing of n returns.
Children(n) == {c \in AllNodes : c <= nodeCount /\ parent[c] = n}

\* Mutant: every entry taken for a directory.
IsDirectoryAlways(n) == TRUE

\* stats.isDirectory()
IsDirectory(n) == kind[n] = "dir"

\* A finite tree: every entry but the seed lies in an entry numbered before
\* it.  Entries are numbered level by level, so that each tree shape is
\* drawn once rather than once per renumbering.
IsForest(count, par) ==
    /\ par[Root] = 0
    /\ \A n \in AllNodes :
          /\ n > count => par[n] = 0
          /\ (n <= count /\ n # Root) => par[n] \in 1..(n - 1)
          /\ (n < count /\ n # Root) => par[n] <= par[n + 1]

\* Only directories hold entries.
IsTree(count, par, knd) ==
    \A n \in AllNodes :
       /\ n > count => knd[n] = "absent"
       /\ n <= count => knd[n] \in {"dir", "file"}
       /\ (n <= count /\ n # Root) => knd[par[n]] = "dir"

----------------------------------------------------------------------------
\* The walker

\* The results a worker function may return for one call.
WorkerResults(w) ==
    CASE w = "truthy" -> {TRUE}
      [] w = "falsy" -> {FALSE}
      [] OTHER -> BOOLEAN

\* Mutant: ignoreWorker handed on to the walks of the children.
IgnoreWorkerAlways(n) == TRUE

\* Mutant: the seed walked without ignoreWorker.
IgnoreWorkerNever(n) == FALSE

\* The ignoreWorker argument: true for the seed, omitted for children.
IgnoreWorker(n) == n = Root

\* Mutant: the worker's result taken the wrong way round.
RejectedInverted(ignoreWorker, result) == ~ignoreWorker /\ result

\* Mutant: the worker's result not looked at.
RejectedNever(ignoreWorker, result) == FALSE

\* !ignoreWorker && !worker(path, stats)
Rejected(ignoreWorker, result) == ~ignoreWorker /\ ~result

\* Mutant: the directory itself counted among its pending paths.
PathCountPlusOne(pathNames) == Cardinality(pathNames) + 1

\* Mutant: one path too few counted as pending.
PathCountMinusOne(pathNames) == Cardinality(pathNames) - 1

\* pending = pathCount = pathNames.length
PathCount(pathNames) == Cardinality(pathNames)

\* Mutant: the directory's callback fired with one path still pending.
AllWalkedOffByOne(p) == p <= 1

\* if (!pending) in pathWalkCallback
AllWalked(p) == p = 0

\* Mutant: a default callback that does nothing.
ThrowsNever(cb, error) == FALSE

\* The top-level callback: the caller's function, or defaultCallback,
\* which throws the error it is given.
Throws(cb, error) == TypeOf(cb) # "function" /\ Truthy(error)

\* Mutant: pathWalkCallback calling callback() where callback(error) is
\* meant.
RECURSIVE InvokeDropsError(_, _, _)
InvokeDropsError(n, error, st) ==
    LET st1 == [st EXCEPT !.done[n] = Append(@, error)]
    IN  IF n = Root
        THEN [st1 EXCEPT !.completion = Append(@, error)]
        ELSE LET p == parent[n]
                 st2 == [st1 EXCEPT !.pending[p] = @ - 1]
             IN  IF AllWalked(st2.pending[p])
                 THEN InvokeDropsError(p, NoError,
                                       [st2 EXCEPT !.closer[p] = n])
                 ELSE st2

\* Mutant: pathWalkCallback calling the directory's callback at once when
\* it is given an error.
RECURSIVE InvokeFailFast(_, _, _)
InvokeFailFast(n, error, st) ==
    LET st1 == [st EXCEPT !.done[n] = Append(@, error)]
    IN  IF n = Root
        THEN [st1 EXCEPT !.completion = Append(@, error)]
        ELSE LET p == parent[n]
                 st2 == [st1 EXCEPT !.pending[p] = @ - 1]
             IN  IF AllWalked(st2.pending[p]) \/ Truthy(error)
                 THEN InvokeFailFast(p, error, [st2 EXCEPT !.closer[p] = n])
                 ELSE st2

\* Invoking the callback of frame n with error: the seed's frame calls the
\* top-level callback; a child's frame calls its directory's
\* pathWalkCallback, which decrements pending and, when no path is pending,
\* calls the directory's own callback with the same error.
RECURSIVE Invoke(_, _, _)
Invoke(n, error, st) ==
    LET st1 == [st EXCEPT !.done[n] = Append(@, error)]
    IN  IF n = Root
        THEN [st1 EXCEPT !.completion = Append(@, error)]
        ELSE LET p == parent[n]
                 st2 == [st1 EXCEPT !.pending[p] = @ - 1]
             IN  IF AllWalked(st2.pending[p])
                 THEN Invoke(p, error, [st2 EXCEPT !.closer[p] = n])
                 ELSE st2

Frames == [pending |-> pending, done |-> done, closer |-> closer,
           completion |-> completion]

\* Mutant: callback() where callback(error) is meant.
CallbackDropsError(n, error) ==
    LET st == Invoke(n, NoError, Frames)
    IN  /\ pending' = st.pending
        /\ done' = st.done
        /\ closer' = st.closer
        /\ completion' = st.completion
        /\ UNCHANGED uncaught

\* The state after the callback of frame n is invoked with error.
Callback(n, error) ==
    LET st == Invoke(n, error, Frames)
    IN  /\ pending' = st.pending
        /\ done' = st.done
        /\ closer' = st.closer
        /\ completion' = st.completion
        /\ uncaught' = IF Len(st.completion) > Len(completion)
                          /\ Throws(callback, error)
                       THEN error
                       ELSE uncaught

----------------------------------------------------------------------------
Init ==
    /\ nodeCount \in 1..MaxNodes
    /\ parent \in [AllNodes -> 0..MaxNodes]
    /\ IsForest(nodeCount, parent)
    /\ kind \in [AllNodes -> {"dir", "file", "absent"}]
    /\ IsTree(nodeCount, parent, kind)
    /\ path \in PathValues
    /\ worker \in WorkerValues
    /\ callback \in CallbackValues
    /\ phase = "idle"
    /\ thrown = NoError
    /\ uncaught = NoError
    /\ statOut = {}
    /\ readdirOut = {}
    /\ statIssued = [n \in AllNodes |-> 0]
    /\ readdirIssued = [n \in AllNodes |-> 0]
    /\ pending = [n \in AllNodes |-> 0]
    /\ done = [n \in AllNodes |-> <<>>]
    /\ closer = [n \in AllNodes |-> 0]
    /\ completion = <<>>
    /\ workerLog = [n \in AllNodes |-> <<>>]
    /\ ioErrors = {}

\* Mutant: the test of the path's type the wrong way round.
ArgumentErrorInverted(p, w) ==
    IF TypeOf(p) = "string" THEN PathTypeError
    ELSE IF TypeOf(w) # "function" THEN WorkerTypeError
    ELSE NoError

\* Mutant: the path not validated.
ArgumentErrorWorkerOnly(p, w) ==
    IF TypeOf(w) # "function" THEN WorkerTypeError ELSE NoError

\* Mutant: the worker not validated.
ArgumentErrorPathOnly(p, w) ==
    IF TypeOf(p) # "string" THEN PathTypeError ELSE NoError

\* The error the exported function reports without walking, or NoError.
ArgumentError(p, w) ==
    IF TypeOf(p) # "string" THEN PathTypeError
    ELSE IF TypeOf(w) # "function" THEN WorkerTypeError
    ELSE NoError

\* module.exports = function (path, worker, callback)
Walk ==
    /\ phase = "idle"
    /\ LET error == ArgumentError(path, worker)
       IN  IF Truthy(error)
           THEN /\ completion' = Append(completion, error)
                /\ thrown' = IF Throws(callback, error) THEN error ELSE thrown
                /\ phase' = IF Throws(callback, error)
                            THEN "threw" ELSE "returned"
                /\ UNCHANGED <<statOut, statIssued>>
           ELSE /\ statOut' = statOut \cup {Root}
                /\ statIssued' = [statIssued EXCEPT ![Root] = @ + 1]
                /\ phase' = "returned"
                /\ UNCHANGED <<completion, thrown>>
    /\ UNCHANGED <<nodeCount, parent, kind, path, worker, callback, uncaught,
                   readdirOut, readdirIssued, pending, done, closer,
                   workerLog, ioErrors>>

\* The callback of fs.stat(path, ...) for entry n.
StatCallback(n) ==
    /\ n \in statOut
    /\ uncaught = NoError
    /\ statOut' = statOut \ {n}
    /\ \E failure \in BOOLEAN :
          IF failure
          THEN /\ ioErrors' = ioErrors \cup {StatError(n)}
               /\ Callback(n, StatError(n))
               /\ UNCHANGED <<workerLog, readdirOut, readdirIssued>>
          ELSE /\ UNCHANGED ioErrors
               /\ \E result \in WorkerResults(worker) :
                     /\ workerLog' = IF IgnoreWorker(n) THEN workerLog
                                     ELSE [workerLog EXCEPT
                                              ![n] = Append(@, result)]
                     /\ IF Rejected(IgnoreWorker(n), result)
                           \/ ~IsDirectory(n)
                        THEN /\ Callback(n, NoError)
                             /\ UNCHANGED <<readdirOut, readdirIssued>>
                        ELSE /\ readdirOut' = readdirOut \cup {n}
                             /\ readdirIssued' =
                                   [readdirIssued EXCEPT ![n] = @ + 1]
                             /\ UNCHANGED <<pending, done, closer,
                                            completion, uncaught>>
    /\ UNCHANGED <<nodeCount, parent, kind, path, worker, callback, phase,
                   thrown, statIssued>>

\* The callback of fs.readdir(path, ...) for directory n.
ReaddirCallback(n) ==
    /\ n \in readdirOut
    /\ uncaught = NoError
    /\ readdirOut' = readdirOut \ {n}
    /\ \E failure \in BOOLEAN :
          IF failure
          THEN /\ ioErrors' = ioErrors \cup {ReaddirError(n)}
               /\ Callback(n, ReaddirError(n))
               /\ UNCHANGED <<statOut, statIssued>>
          ELSE LET pathNames == Children(n)
                   pathCount == PathCount(pathNames)
               IN  /\ UNCHANGED ioErrors
                   /\ IF pathCount = 0
                      THEN /\ Callback(n, NoError)
                           /\ UNCHANGED <<statOut, statIssued>>
                      ELSE /\ pending' = [pending EXCEPT ![n] = pathCount]
                           /\ statOut' = statOut \cup pathNames
                           /\ statIssued' =
                                 [c \in AllNodes |->
                                    IF c \in pathNames
                                    THEN statIssued[c] + 1
                                    ELSE statIssued[c]]
                           /\ UNCHANGED <<done, closer, completion, uncaught>>
    /\ UNCHANGED <<nodeCount, parent, kind, path, worker, callback, phase,
                   thrown, readdirIssued, workerLog>>

Next ==
    \/ Walk
    \/ \E n \in AllNodes : StatCallback(n)
    \/ \E n \in AllNodes : ReaddirCallback(n)

Spec == Init /\ [][Next]_vars

\* Every issued fs.stat and fs.readdir callback is eventually delivered.
FairSpec == Spec /\ WF_vars(Next)

----------------------------------------------------------------------------
\* Shorthands for the properties

\* Entries beneath the seed.
NonRoot == {n \in AllNodes : n <= nodeCount /\ n # Root}

\* The directories strictly between the seed and entry n.
RECURSIVE Ancestors(_)
Ancestors(n) ==
    IF n = Root \/ parent[n] = Root \/ parent[n] = 0 THEN {}
    ELSE {parent[n]} \cup Ancestors(parent[n])

\* The entries beneath entry n, at any depth.
Descendants(n) ==
    {d \in NonRoot : d # n /\ (parent[d] = n \/ n \in Ancestors(d))}

\* The path is not a string or the worker is not a function.
InvalidArguments == TypeOf(path) # "string" \/ TypeOf(worker) # "function"

\* The call was given a string path and a worker function and has returned.
Started == phase = "returned" /\ ~InvalidArguments

\* No request is in flight and every frame started has called back.
Quiescent ==
    /\ statOut = {}
    /\ readdirOut = {}
    /\ \A n \in AllNodes : Len(done[n]) = statIssued[n]

\* The caller supplied a completion function.
CallerCompletion == TypeOf(callback) = "function"

\* Some directory with at least two children has fired its own callback.
FanInHappened ==
    \E n \in AllNodes : Cardinality(Children(n)) >= 2 /\ closer[n] # 0

----------------------------------------------------------------------------
\* C1: the caller's completion function is invoked at most once, whatever
\* the tree, the worker and the outcome and order of the stat and readdir
\* callbacks.
C1_CompletionAtMostOnce == CallerCompletion => Len(completion) <= 1

C1_Witness ==
    /\ CallerCompletion
    /\ Len(completion) = 1
    /\ FanInHappened
    /\ ioErrors # {}

\* C2: when every issued callback is delivered, a call with a completion
\* function leads to the completion being invoked and to no frame left
\* waiting.
C2_CompletionEventually ==
    (phase = "returned" /\ CallerCompletion)
        ~> (Len(completion) = 1 /\ Quiescent)

C2_Witness ==
    /\ CallerCompletion
    /\ Len(completion) = 1
    /\ Quiescent
    /\ \E n \in NonRoot : IsDirectory(n) /\ Children(n) = {} /\ closer[Root] # 0
    /\ \E n \in NonRoot : ~IsDirectory(n) /\ Len(done[n]) = 1
    /\ \E n \in NonRoot : workerLog[n] = <<FALSE>>

\* C3: when the completion is invoked no stat or readdir request is in
\* flight and no frame is unfinished, and from then on the worker is not
\* invoked and no filesystem request is issued.
C3_CompletionIsLast ==
    /\ [](Len(completion) > 0 => Quiescent)
    /\ [][Len(completion) > 0 =>
            /\ workerLog' = workerLog
            /\ statIssued' = statIssued
            /\ readdirIssued' = readdirIssued]_vars

C3_Witness ==
    /\ Len(completion) = 1
    /\ FanInHappened
    /\ \E n \in NonRoot : parent[n] # Root /\ workerLog[n] # <<>>

\* C4: with a worker that always returns true and no stat or readdir
\* failure, every entry beneath the seed is passed to the worker exactly
\* once, the seed never is, and the completion is eventually invoked with no
\* error.
C4_TruthyWalksAll ==
    /\ [](worker = "truthy" =>
            /\ workerLog[Root] = <<>>
            /\ \A n \in AllNodes : Len(workerLog[n]) <= 1)
    /\ (Started /\ worker = "truthy")
          ~> \/ ioErrors # {}
             \/ /\ completion = <<NoError>>
                /\ \A n \in NonRoot : workerLog[n] = <<TRUE>>

C4_Witness ==
    /\ worker = "truthy"
    /\ ioErrors = {}
    /\ completion = <<NoError>>
    /\ nodeCount = MaxNodes
    /\ \E n \in NonRoot : parent[n] # Root /\ workerLog[n] = <<TRUE>>
    /\ \E n \in NonRoot : ~IsDirectory(n) /\ workerLog[n] = <<TRUE>>

\* C5: with a directory seed, no failure and a worker that always returns
\* false, the worker is passed exactly the immediate children of the seed,
\* each once, nothing deeper is stat'ed or listed, and the completion is
\* invoked with no error.
C5_FalsyWalksOneLevel ==
    /\ [](worker = "falsy" =>
            \A n \in AllNodes :
               /\ Len(workerLog[n]) <= 1
               /\ n \notin Children(Root) => workerLog[n] = <<>>
               /\ n # Root => readdirIssued[n] = 0
               /\ n \notin Children(Root) \cup {Root} => statIssued[n] = 0)
    /\ (Started /\ worker = "falsy" /\ IsDirectory(Root))
          ~> \/ ioErrors # {}
             \/ /\ completion = <<NoError>>
                /\ \A n \in Children(Root) : workerLog[n] = <<FALSE>>

C5_Witness ==
    /\ worker = "falsy"
    /\ ioErrors = {}
    /\ completion = <<NoError>>
    /\ Cardinality(Children(Root)) >= 2
    /\ \E n \in Children(Root) : IsDirectory(n) /\ Children(n) # {}
    /\ \A n \in Children(Root) : workerLog[n] = <<FALSE>>

\* Entry n lies beneath the seed and the worker approved every directory
\* strictly between the seed and n.
Admitted(n) ==
    /\ n \in NonRoot
    /\ \A a \in Ancestors(n) : IsDirectory(a) /\ workerLog[a] = <<TRUE>>

\* C6: for any worker, the entries passed to the worker are those beneath
\* the seed whose ancestors below the seed were all approved, each at most
\* once and, when a traversal without I/O failure completes, each exactly
\* once; a rejected entry is never listed and nothing beneath it is stat'ed
\* or passed to the worker.
C6_WorkerPrunesSubtree ==
    /\ \A n \in AllNodes :
          /\ Len(workerLog[n]) <= 1
          /\ workerLog[n] # <<>> => Admitted(n)
          /\ workerLog[n] = <<FALSE>> =>
                /\ readdirIssued[n] = 0
                /\ \A d \in Descendants(n) :
                      statIssued[d] = 0 /\ workerLog[d] = <<>>
    /\ (done[Root] # <<>> /\ ioErrors = {}) =>
          \A n \in NonRoot : Admitted(n) <=> Len(workerLog[n]) = 1

C6_Witness ==
    /\ worker = "any"
    /\ done[Root] # <<>>
    /\ ioErrors = {}
    /\ \E n, m \in NonRoot :
          /\ n # m
          /\ parent[n] = parent[m]
          /\ workerLog[n] = <<FALSE>>
          /\ Children(n) # {}
          /\ \A c \in Children(n) : statIssued[c] = 0
          /\ workerLog[m] = <<TRUE>>

\* C7: the worker is never invoked with the seed path, and once the seed's
\* stat has succeeded on a directory, a readdir has been issued on the seed
\* whatever the worker is.
C7_SeedBypassesWorker ==
    /\ workerLog[Root] = <<>>
    /\ (/\ statIssued[Root] = 1
        /\ Root \notin statOut
        /\ StatError(Root) \notin ioErrors
        /\ IsDirectory(Root)) => readdirIssued[Root] = 1

C7_Witness ==
    /\ worker = "falsy"
    /\ readdirIssued[Root] = 1
    /\ \E n \in Children(Root) : workerLog[n] = <<FALSE>>

\* C8: for every non-string path and a completion function, the call
\* invokes the completion with a TypeError, never invokes the worker and
\* issues no stat or readdir request.
C8_NonStringPath ==
    (phase # "idle" /\ TypeOf(path) # "string" /\ CallerCompletion) =>
        /\ phase = "returned"
        /\ Len(completion) = 1
        /\ completion[1].type = "TypeError"
        /\ \A n \in AllNodes :
              /\ workerLog[n] = <<>>
              /\ statIssued[n] = 0
              /\ readdirIssued[n] = 0

C8_Witness ==
    /\ phase = "returned"
    /\ path = "/o/"
    /\ TypeOf(worker) = "function"
    /\ CallerCompletion
    /\ completion = <<PathTypeError>>

\* C9: for every non-function worker, the call invokes the completion
\* handler with a TypeError and issues no stat request.
C9_NonFunctionWorker ==
    (phase # "idle" /\ TypeOf(worker) # "function") =>
        /\ Len(completion) = 1
        /\ completion[1].type = "TypeError"
        /\ \A n \in AllNodes : statIssued[n] = 0

C9_Witness ==
    /\ phase = "returned"
    /\ TypeOf(path) = "string"
    /\ worker = "'not-a-function'"
    /\ completion = <<WorkerTypeError>>

\* C10 as stated: a call with a non-string path or a non-function worker
\* returns without raising, whatever the completion argument is.
C10_NeverThrowsSynchronously ==
    (phase # "idle" /\ InvalidArguments) =>
        phase = "returned" /\ thrown = NoError

\* C10 amended: such a call returns without raising and reports the
\* TypeError through the completion when the completion is a function; when
\* it is not, the default callback raises the TypeError out of the call.
C10_ThrowsOnlyWithoutCompletion ==
    (phase # "idle" /\ InvalidArguments) =>
        /\ Len(completion) = 1
        /\ completion[1].type = "TypeError"
        /\ IF CallerCompletion
           THEN phase = "returned" /\ thrown = NoError
           ELSE phase = "threw" /\ thrown = completion[1]

C10_Witness ==
    /\ phase = "threw"
    /\ thrown = WorkerTypeError
    /\ callback = "'not-a-function'"

\* C11: when the completion argument is not a function the default handler
\* raises every failure it is given and is silent on success: a TypeError
\* for the path or the worker is raised out of the call, and an I/O error
\* that reaches the seed is raised out of the filesystem callback.
C11_DefaultEscalates ==
    ~CallerCompletion =>
        /\ completion = <<>> => thrown = NoError /\ uncaught = NoError
        /\ completion # <<>> =>
              IF InvalidArguments
              THEN /\ phase = "threw"
                   /\ thrown = completion[1]
                   /\ thrown.type = "TypeError"
                   /\ uncaught = NoError
              ELSE /\ phase = "returned"
                   /\ thrown = NoError
                   /\ uncaught = completion[1]

C11_Witness ==
    /\ ~CallerCompletion
    /\ uncaught.type = "Error"
    /\ uncaught.node # Root
    /\ FanInHappened

\* C12: with a string path, a worker function and a completion that is not
\* a function, the call returns without raising, and while the seed's stat
\* is still in flight neither the worker nor the default completion has
\* run.
C12_ValidCallReturns ==
    (phase # "idle" /\ ~InvalidArguments /\ ~CallerCompletion) =>
        /\ phase = "returned"
        /\ thrown = NoError
        /\ Root \in statOut =>
              /\ completion = <<>>
              /\ uncaught = NoError
              /\ \A n \in AllNodes : workerLog[n] = <<>>

C12_Witness ==
    /\ phase = "returned"
    /\ ~InvalidArguments
    /\ callback = "'not-a-function'"
    /\ Root \in statOut

\* C13: when the stat of the seed fails, the worker is never invoked, no
\* readdir is issued and the completion is invoked with that error.
C13_SeedStatFails ==
    StatError(Root) \in ioErrors =>
        /\ completion = <<StatError(Root)>>
        /\ \A n \in AllNodes :
              workerLog[n] = <<>> /\ readdirIssued[n] = 0

C13_Witness ==
    /\ StatError(Root) \in ioErrors
    /\ CallerCompletion
    /\ worker = "truthy"
    /\ nodeCount = MaxNodes

Last(seq) == seq[Len(seq)]

\* C15: in every step in which the callback of a directory that is waiting
\* for its children is invoked, the step takes its pending count from one to
\* zero and the argument is the one the callback of one of its children is
\* invoked with in that step, an error or none, whatever its other children
\* reported before.
C15_LastChildDecides ==
    [][\A n \in AllNodes :
          (Len(done'[n]) > Len(done[n]) /\ pending[n] > 0) =>
              /\ pending[n] = 1
              /\ pending'[n] = 0
              /\ \E c \in Children(n) :
                    /\ done[c] = <<>>
                    /\ Len(done'[c]) = 1
                    /\ Last(done'[n]) = done'[c][1]
                    /\ closer'[n] = c
                    /\ \A o \in Children(n) \ {c} : done'[o] = done[o]]_vars

C15_Witness ==
    \E n \in AllNodes : \E c, o \in Children(n) :
       /\ closer[n] = c
       /\ done[c] = <<NoError>>
       /\ done[o] # <<>>
       /\ Truthy(done[o][1])
       /\ done[n] = <<NoError>>

\* C16: the callback of a directory has not been invoked while any of the
\* walks it started on its children has not invoked its own callback.
C16_ChildrenBeforeDirectory ==
    \A n \in AllNodes : \A c \in Children(n) :
       (done[n] # <<>> /\ statIssued[c] > 0) =>
           /\ done[c] # <<>>
           /\ c \notin statOut
           /\ c \notin readdirOut

C16_Witness ==
    /\ done[Root] # <<>>
    /\ \E n \in NonRoot : \E c \in Children(n) :
          /\ Cardinality(Children(Root)) >= 2
          /\ done[c] # <<>>
          /\ done[n] # <<>>

\* The stat of entry n has been delivered without an error.
StatSucceeded(n) ==
    statIssued[n] = 1 /\ n \notin statOut /\ StatError(n) \notin ioErrors

\* The stat or the readdir of entry n has failed.
Failed(n) == StatError(n) \in ioErrors \/ ReaddirError(n) \in ioErrors

\* C17: a stat or readdir failure cancels nothing: once a failure has
\* occurred, every walk in flight still invokes its callback, after the
\* worker was invoked on its entry unless its own stat fails, and the
\* callback of a directory with a failed child is invoked only after all of
\* its children have called back.
C17_FailureCancelsNothing ==
    /\ \A d \in AllNodes :
          (ioErrors # {} /\ d \in statOut)
             ~> /\ Len(done[d]) = 1
                /\ \/ d = Root
                   \/ StatError(d) \in ioErrors
                   \/ Len(workerLog[d]) = 1
    /\ [](\A n \in AllNodes : \A s \in Children(n) :
             (Failed(s) /\ done[n] # <<>>) =>
                 \A c \in Children(n) : Len(done[c]) = 1)

C17_Witness ==
    \E n \in AllNodes : \E s, c \in Children(n) :
       /\ StatError(s) \in ioErrors
       /\ closer[n] = c
       /\ workerLog[c] = <<TRUE>>
       /\ \E d \in Children(c) : Len(workerLog[d]) = 1 /\ Len(done[d]) = 1

\* Directory n has listed its children and there is at least one.
Listed(n) ==
    /\ readdirIssued[n] = 1
    /\ n \notin readdirOut
    /\ ReaddirError(n) \notin ioErrors
    /\ Children(n) # {}

\* C18: the pending count of a directory that has listed its children is
\* the number of its children whose walk has not called back; it lies
\* between zero and the number of children, it is zero exactly when the
\* directory's own callback has been invoked, and it changes only when it is
\* set on listing or lowered by one as a child calls back.
C18_PendingCountsChildren ==
    /\ [](\A n \in AllNodes :
             Listed(n) =>
                 /\ pending[n] =
                       Cardinality({c \in Children(n) : done[c] = <<>>})
                 /\ pending[n] \in 0..Cardinality(Children(n))
                 /\ pending[n] = 0 <=> Len(done[n]) = 1
                 /\ Len(done[n]) <= 1)
    /\ [][\A n \in AllNodes :
             pending'[n] # pending[n] =>
                 \/ /\ n \in readdirOut
                    /\ pending'[n] = Cardinality(Children(n))
                 \/ /\ pending'[n] = pending[n] - 1
                    /\ \E c \in Children(n) :
                          done[c] = <<>> /\ Len(done'[c]) = 1]_vars

C18_Witness ==
    \E n \in AllNodes :
       /\ Listed(n)
       /\ Cardinality(Children(n)) >= 2
       /\ pending[n] = 1
       /\ \E c \in Children(n) : done[c] # <<>> /\ Truthy(done[c][1])

\* C19: an entry that is not a directory is never listed, and once its stat
\* has succeeded its callback has been invoked with no error, the worker
\* having been asked once unless the entry is the seed, whatever the worker
\* returned.
C19_NonDirectoryIsLeaf ==
    \A n \in AllNodes :
       kind[n] = "file" =>
           /\ readdirIssued[n] = 0
           /\ StatSucceeded(n) =>
                 /\ done[n] = <<NoError>>
                 /\ n # Root => Len(workerLog[n]) = 1

C19_Witness ==
    \E n, m \in NonRoot :
       /\ kind[n] = "file"
       /\ kind[m] = "file"
       /\ workerLog[n] = <<TRUE>>
       /\ workerLog[m] = <<FALSE>>
       /\ done[n] = <<NoError>>
       /\ done[m] = <<NoError>>

\* C20: an entry whose stat failed is not passed to the worker and not
\* listed, and its callback is invoked once, with the stat error; a
\* directory whose readdir failed starts no walk on its children, and its
\* callback is invoked once, with the readdir error.
C20_FailureEndsBranch ==
    \A n \in AllNodes :
       /\ StatError(n) \in ioErrors =>
             /\ workerLog[n] = <<>>
             /\ readdirIssued[n] = 0
             /\ done[n] = <<StatError(n)>>
       /\ ReaddirError(n) \in ioErrors =>
             /\ done[n] = <<ReaddirError(n)>>
             /\ \A c \in Children(n) : statIssued[c] = 0

C20_Witness ==
    \E n, m \in NonRoot :
       /\ done[n] = <<StatError(n)>>
       /\ done[m] = <<ReaddirError(m)>>
       /\ Children(m) # {}
       /\ done[Root] # <<>>

\* C21: the worker is invoked on an entry only in the callback of that
\* entry's successful stat, never on the seed, and, unless the entry lies
\* directly in the seed, only after it was invoked on the entry's directory
\* in an earlier step and returned a truthy value; so along every chain from
\* the seed the worker is called on the directory before the entry.
C21_ParentBeforeChild ==
    /\ [](\A n \in AllNodes :
             workerLog[n] # <<>> =>
                 /\ n # Root
                 /\ StatSucceeded(n)
                 /\ StatSucceeded(parent[n])
                 /\ parent[n] # Root => workerLog[parent[n]] = <<TRUE>>)
    /\ [][\A n \in AllNodes :
             workerLog'[n] # workerLog[n] =>
                 /\ n \in statOut
                 /\ n \notin statOut'
                 /\ parent[n] # Root => workerLog[parent[n]] = <<TRUE>>
                 /\ \A m \in AllNodes \ {n} :
                       workerLog'[m] = workerLog[m]]_vars

C21_Witness ==
    \E n \in NonRoot :
       /\ parent[n] # Root
       /\ parent[parent[n]] # Root
       /\ workerLog[n] # <<>>
       /\ workerLog[parent[n]] = <<TRUE>>
       /\ workerLog[parent[parent[n]]] = <<TRUE>>

====
